---- MODULE Spec2Model ----
(***************************************************************************)
(* Model of climate.c: main opens each file argument in order, analyze_file *)
(* tokenizes every line, decodes it into a freshly malloc'ed climate_info   *)
(* and folds it into the fixed table states[NUM_STATES]; print_report walks *)
(* the table from index 0.                                                  *)
(*                                                                          *)
(* Numbers: temperatures are kept in hundredths of a degree Fahrenheit,     *)
(* timestamps in whole seconds, all other fields as integers.  Characters   *)
(* are their byte values; 0 is the NUL byte.                                *)
(***************************************************************************)
EXTENDS Integers, Sequences, FiniteSets, TLC

\* ---------------------------------------------------------------- constants
NUM_STATES == 50
EXIT_FAILURE == 1
EXIT_SUCCESS == 0
NumFields == 9

\* ------------------------------------------------------------------- bounds
MaxFiles == 2      \* file arguments on the command line
MaxRecords == 3    \* lines read by fgets in one run of Spec
MaxExtra == 2      \* lines read beyond NUM_STATES in one run of SpecMany

\* ------------------------------------------------------------------- inputs
\* Field 0 tokens: "CA" and "CAX".
CodeTokens == { <<67, 65>>, <<67, 65, 88>> }
\* Field 1 tokens: milliseconds since the epoch.
MsTokens == { 1000000, 2000999 }
\* Fields 3..6 and 8 (humidity, snow, cloud cover, lightning, Kelvin).
ReadingTokens == { <<50, 0, 10, 1, 300>>, <<60, 1, 20, 0, 301>> }
GeohashToken == 0
PressureToken == 101325

\* A line is what strtok finds in one fgets buffer: a sequence of tokens.
\* The last line has the one-character state code "W".
FullLines ==
    { <<c, ms, GeohashToken, r[1], r[2], r[3], r[4], PressureToken, r[5]>> :
        c \in CodeTokens, ms \in MsTokens, r \in ReadingTokens }
    \cup { <<<<87>>, 3000000, GeohashToken, 70, 1, 30, 1, PressureToken, 299>> }

\* Lines with fewer than 9 tokens: a line cut after field 2.
ShortLines ==
    { <<c, ms, GeohashToken>> : c \in CodeTokens, ms \in {1000000} }

\* Bytes a malloc'ed block can hold before it is written: 0 on a fresh heap,
\* a fill pattern under a filling allocator.
FillBytes == { 0, 90 }

VARIABLES
    pc,         \* position of main: "start", "loop", "analyze", "exit", "crashed"
    argc,       \* argument count
    i,          \* main's loop index
    mallocFill, \* the byte malloc'ed memory holds before it is written
    states,     \* info *states[NUM_STATES]
    index,      \* analyze_file: tokens stored in tokenList for the last line
    exitCode,   \* process exit status, -1 while running
    report,     \* the accumulators print_report printed, in print order
    printed,    \* print_report ran
    failedOpen, \* history: the argument index whose fopen returned NULL, 0 if none
    recs,       \* history: per opened file, the structs decoded from its lines
    folded      \* history: per table slot, the positions in consumed of the
                \* structs that were stored or folded there

vars == <<pc, argc, i, mallocFill, states, index, exitCode, report, printed, failedOpen, recs, folded>>

Slots == 0 .. (NUM_STATES - 1)

\* The NULL pointer.
NULL == [null |-> TRUE]

\* ---------------------------------------------------------------- helpers
RECURSIVE Flatten(_)
Flatten(ss) == IF ss = <<>> THEN <<>> ELSE Head(ss) \o Flatten(Tail(ss))

\* All structs decoded so far, in processing order.
consumed == Flatten(recs)

\* strncpy(dst, tok, 2): copies at most 2 bytes, pads with NUL when tok is shorter.
Strncpy2(tok) == [j \in 1..2 |-> IF j <= Len(tok) THEN tok[j] ELSE 0]

\* (atof(tok)) * 9 / 5 - 459.67, in hundredths of a degree.
KtoF(k) == k * 180 - 45967

\* (atof(tok)) / 1000 stored into a long int.
MsToSec(ms) == ms \div 1000

\* malloc + the assignments of lines 150-163.  code[2] is never written: it
\* keeps the byte the allocator left there.
Decode(tokenList, fill) ==
    [ code              |-> Strncpy2(tokenList[1]) \o <<fill>>,
      pad               |-> fill,
      min_temp_date     |-> MsToSec(tokenList[2]),
      max_temp_date     |-> MsToSec(tokenList[2]),
      humidity          |-> tokenList[4],
      snow              |-> tokenList[5],
      cloud_cover       |-> tokenList[6],
      lightning_strikes |-> tokenList[7],
      pressure          |-> tokenList[8],
      temp              |-> KtoF(tokenList[9]),
      max_temp          |-> KtoF(tokenList[9]),
      min_temp          |-> KtoF(tokenList[9]),
      num_records       |-> 1 ]

\* Little-endian bytes of an unsigned long up to its first zero byte.
RECURSIVE LowBytes(_)
LowBytes(n) == IF n % 256 = 0 THEN <<>> ELSE <<n % 256>> \o LowBytes(n \div 256)

\* The C string strcmp and printf("%s") read at info->code: the bytes up to
\* the first NUL.  When code[0..2] holds no NUL the read runs on through the
\* padding into num_records at offset 8.
CStr(s) ==
    IF s.code[1] = 0 THEN <<>>
    ELSE IF s.code[2] = 0 THEN <<s.code[1]>>
    ELSE IF s.code[3] = 0 THEN <<s.code[1], s.code[2]>>
    ELSE <<s.code[1], s.code[2], s.code[3]>>
            \o [j \in 1..5 |-> s.pad] \o LowBytes(s.num_records)

\* strcmp(a->code, b->code) == 0
StrcmpEq(a, b) == CStr(a) = CStr(b)

\* The two characters of a struct's state code.
Code2(s) == <<s.code[1], s.code[2]>>

\* UpdateInfo with line 185 comparing with < : an equal temperature keeps the
\* older date.
UpdateInfo_firstWinsMax(acc, st) ==
    LET newMax == acc.max_temp < st.temp
        newMin == acc.min_temp >= st.temp
    IN [ acc EXCEPT
          !.num_records       = acc.num_records + 1,
          !.humidity          = acc.humidity + st.humidity,
          !.snow              = acc.snow + st.snow,
          !.cloud_cover       = acc.cloud_cover + st.cloud_cover,
          !.lightning_strikes = acc.lightning_strikes + st.lightning_strikes,
          !.pressure          = acc.pressure + st.pressure,
          !.temp              = acc.temp + st.temp,
          !.max_temp          = IF newMax THEN st.temp ELSE acc.max_temp,
          !.max_temp_date     = IF newMax THEN st.max_temp_date ELSE acc.max_temp_date,
          !.min_temp          = IF newMin THEN st.temp ELSE acc.min_temp,
          !.min_temp_date     = IF newMin THEN st.min_temp_date ELSE acc.min_temp_date ]

\* UpdateInfo with line 191 comparing with > : an equal temperature keeps the
\* older date.
UpdateInfo_firstWinsMin(acc, st) ==
    LET newMax == acc.max_temp <= st.temp
        newMin == acc.min_temp > st.temp
    IN [ acc EXCEPT
          !.num_records       = acc.num_records + 1,
          !.humidity          = acc.humidity + st.humidity,
          !.snow              = acc.snow + st.snow,
          !.cloud_cover       = acc.cloud_cover + st.cloud_cover,
          !.lightning_strikes = acc.lightning_strikes + st.lightning_strikes,
          !.pressure          = acc.pressure + st.pressure,
          !.temp              = acc.temp + st.temp,
          !.max_temp          = IF newMax THEN st.temp ELSE acc.max_temp,
          !.max_temp_date     = IF newMax THEN st.max_temp_date ELSE acc.max_temp_date,
          !.min_temp          = IF newMin THEN st.temp ELSE acc.min_temp,
          !.min_temp_date     = IF newMin THEN st.min_temp_date ELSE acc.min_temp_date ]

\* Lines 176-194: fold struct st into the accumulator acc.
UpdateInfo(acc, st) ==
    LET newMax == acc.max_temp <= st.temp
        newMin == acc.min_temp >= st.temp
    IN [ acc EXCEPT
          !.num_records       = acc.num_records + 1,
          !.humidity          = acc.humidity + st.humidity,
          !.snow              = acc.snow + st.snow,
          !.cloud_cover       = acc.cloud_cover + st.cloud_cover,
          !.lightning_strikes = acc.lightning_strikes + st.lightning_strikes,
          !.pressure          = acc.pressure + st.pressure,
          !.temp              = acc.temp + st.temp,
          !.max_temp          = IF newMax THEN st.temp ELSE acc.max_temp,
          !.max_temp_date     = IF newMax THEN st.max_temp_date ELSE acc.max_temp_date,
          !.min_temp          = IF newMin THEN st.temp ELSE acc.min_temp,
          !.min_temp_date     = IF newMin THEN st.min_temp_date ELSE acc.min_temp_date ]

\* The slot at which the loop of line 167 breaks, scanning from slot s: the
\* first slot that is NULL or whose code compares equal; NUM_STATES when the
\* loop runs to its end.
RECURSIVE ScanFrom(_, _, _)
ScanFrom(tab, st, s) ==
    IF s >= NUM_STATES THEN NUM_STATES
    ELSE IF tab[s] = NULL THEN s
    ELSE IF StrcmpEq(tab[s], st) THEN s
    ELSE ScanFrom(tab, st, s + 1)

FindSlot(tab, st) == ScanFrom(tab, st, 0)

\* ConsumeRec without the break of line 195: after the update the loop runs
\* on and stores the struct in the first NULL slot.
ConsumeRec_noBreak(tab, st) ==
    LET s == FindSlot(tab, st)
        nulls == { t \in Slots : tab[t] = NULL }
    IN IF s = NUM_STATES THEN tab
       ELSE IF tab[s] = NULL THEN [tab EXCEPT ![s] = st]
       ELSE IF nulls = {} THEN [tab EXCEPT ![s] = UpdateInfo(tab[s], st)]
       ELSE [tab EXCEPT ![s] = UpdateInfo(tab[s], st),
                        ![CHOOSE t \in nulls : \A u \in nulls : t <= u] = st]

\* Lines 167-197: the table after struct st went through the loop.
ConsumeRec(tab, st) ==
    LET s == FindSlot(tab, st)
    IN IF s = NUM_STATES THEN tab
       ELSE IF tab[s] = NULL THEN [tab EXCEPT ![s] = st]
       ELSE [tab EXCEPT ![s] = UpdateInfo(tab[s], st)]

\* History kept beside ConsumeRec: struct number n joins the slot the loop broke at.
FoldedAfter(fol, tab, st, n) ==
    LET s == FindSlot(tab, st)
    IN IF s = NUM_STATES THEN fol ELSE [fol EXCEPT ![s] = Append(fol[s], n)]

EmptyTable == [s \in Slots |-> NULL]

\* ------------------------------------------------------------------- Init
Init ==
    /\ pc = "start"
    /\ argc \in 1 .. (MaxFiles + 1)
    /\ i = 0
    /\ mallocFill \in FillBytes
    /\ states = EmptyTable
    /\ index = 0
    /\ exitCode = -1
    /\ report = <<>>
    /\ printed = FALSE
    /\ failedOpen = 0
    /\ recs = <<>>
    /\ folded = [s \in Slots |-> <<>>]

\* ---------------------------------------------------------------- actions
\* main, lines 95-98: no file argument.
Usage ==
    /\ pc = "start"
    /\ argc < 2
    /\ pc' = "exit"
    /\ exitCode' = EXIT_FAILURE
    /\ UNCHANGED <<argc, i, mallocFill, states, index, report, printed, failedOpen, recs, folded>>

\* main, lines 102-105: the table is all NULL, the loop starts at 1.
EnterLoop ==
    /\ pc = "start"
    /\ argc >= 2
    /\ i' = 1
    /\ pc' = "loop"
    /\ UNCHANGED <<argc, mallocFill, states, index, exitCode, report, printed, failedOpen, recs, folded>>

\* OpenFail doing what the comment of lines 110-111 says: report the error
\* and move on to the next file.
OpenFail_moveOn ==
    /\ pc = "loop"
    /\ i < argc
    /\ i' = i + 1
    /\ failedOpen' = i
    /\ UNCHANGED <<pc, argc, mallocFill, states, index, exitCode, report, printed, recs, folded>>

\* main, lines 108-115: fopen returned NULL.
OpenFail ==
    /\ pc = "loop"
    /\ i < argc
    /\ pc' = "exit"
    /\ exitCode' = EXIT_FAILURE
    /\ failedOpen' = i
    /\ UNCHANGED <<argc, i, mallocFill, states, index, report, printed, recs, folded>>

\* main, lines 108-119: fopen succeeded, analyze_file is entered.
OpenOk ==
    /\ pc = "loop"
    /\ i < argc
    /\ pc' = "analyze"
    /\ recs' = Append(recs, <<>>)
    /\ UNCHANGED <<argc, i, mallocFill, states, index, exitCode, report, printed, failedOpen, folded>>

\* analyze_file, lines 134-197, for the token list the struct is decoded from.
Consume(tokenList, ntok) ==
    LET st == Decode(tokenList, mallocFill)
    IN /\ index' = ntok
       /\ states' = ConsumeRec(states, st)
       /\ folded' = FoldedAfter(folded, states, st, Len(consumed) + 1)
       /\ recs' = [recs EXCEPT ![Len(recs)] = Append(@, st)]
       /\ UNCHANGED <<pc, argc, i, mallocFill, exitCode, report, printed, failedOpen>>

\* analyze_file on a line with 9 or more tokens.
ReadLine ==
    /\ pc = "analyze"
    /\ Len(consumed) < MaxRecords
    /\ \E l \in FullLines : Consume(l, NumFields)

\* analyze_file on a line with fewer than 9 tokens: tokenList[index..8] are
\* never assigned, lines 152-162 read them.  Either the stale pointers are
\* readable and the struct is built from whatever tokens they point at, or
\* the read faults.
ReadShortLine ==
    /\ pc = "analyze"
    /\ Len(consumed) < MaxRecords
    /\ \E l \in ShortLines :
         \/ \E g \in FullLines :
              Consume([j \in 1..NumFields |-> IF j <= Len(l) THEN l[j] ELSE g[j]], Len(l))
         \/ /\ pc' = "crashed"
            /\ index' = Len(l)
            /\ UNCHANGED <<argc, i, mallocFill, states, exitCode, report, printed, failedOpen, recs, folded>>

\* analyze_file, line 134: fgets returned NULL; main, line 105: ++i.
Eof ==
    /\ pc = "analyze"
    /\ i' = i + 1
    /\ pc' = "loop"
    /\ UNCHANGED <<argc, mallocFill, states, index, exitCode, report, printed, failedOpen, recs, folded>>

\* print_report, lines 205-233: the non-NULL slots from index 0 upwards.
RECURSIVE Walk(_, _)
Walk(tab, s) ==
    IF s = NUM_STATES THEN <<>>
    ELSE (IF tab[s] # NULL THEN <<tab[s]>> ELSE <<>>) \o Walk(tab, s + 1)

\* main, lines 122-124: every argument was analyzed.
PrintReport ==
    /\ pc = "loop"
    /\ i >= argc
    /\ report' = Walk(states, 0)
    /\ printed' = TRUE
    /\ exitCode' = EXIT_SUCCESS
    /\ pc' = "exit"
    /\ UNCHANGED <<argc, i, mallocFill, states, index, failedOpen, recs, folded>>

Next ==
    \/ Usage
    \/ EnterLoop
    \/ OpenFail
    \/ OpenOk
    \/ ReadLine
    \/ ReadShortLine
    \/ Eof
    \/ PrintReport

Spec == Init /\ [][Next]_vars

\* ------------------------------------------------ many distinct state codes
\* The n-th of a run of distinct two-letter codes: "AA", "AB", ...
ManyCode(n) == <<65 + (n \div 26), 65 + (n % 26)>>

\* Input in which every line brings a state code not seen before.
ManyLine(n) == <<ManyCode(n), 1000000, GeohashToken, 50, 0, 10, 1, PressureToken, 300 + (n % 2)>>

\* analyze_file on the next line of such input.
ReadLineMany ==
    /\ pc = "analyze"
    /\ Len(consumed) < NUM_STATES + MaxExtra
    /\ Consume(ManyLine(Len(consumed)), NumFields)

NextMany ==
    \/ Usage
    \/ EnterLoop
    \/ OpenFail
    \/ OpenOk
    \/ ReadLineMany
    \/ Eof
    \/ PrintReport

SpecMany == Init /\ [][NextMany]_vars

\* analyze_file over a whole sequence of decoded structs, from table tab.
RECURSIVE FoldAll(_, _)
FoldAll(tab, seq) ==
    IF seq = <<>> THEN tab ELSE FoldAll(ConsumeRec(tab, Head(seq)), Tail(seq))

\* ------------------------------------------------------ notions for claims
Occupied == { s \in Slots : states[s] # NULL }

\* The structs stored or folded into slot s, in processing order.
FoldedRecs(s) == [j \in 1..Len(folded[s]) |-> consumed[folded[s][j]]]

MaxOf(S) == CHOOSE x \in S : \A y \in S : y <= x
MinOf(S) == CHOOSE x \in S : \A y \in S : x <= y

RECURSIVE SumOver(_, _, _)
SumOver(F(_), seq, n) == IF n = 0 THEN 0 ELSE F(seq[n]) + SumOver(F, seq, n - 1)

RECURSIVE Dedup(_, _)
Dedup(seq, seen) ==
    IF seq = <<>> THEN <<>>
    ELSE IF Head(seq) \in seen THEN Dedup(Tail(seq), seen)
    ELSE <<Head(seq)>> \o Dedup(Tail(seq), seen \cup {Head(seq)})

CodesOf(seq) == [j \in 1..Len(seq) |-> Code2(seq[j])]

\* State codes in the order of their first record.
DiscoveryOrder == Dedup(CodesOf(consumed), {})

\* State codes in table order.
TableCodes == CodesOf(Walk(states, 0))

\* The step reads one line (any step out of "analyze" other than end of file).
LineStep == pc = "analyze" /\ pc' # "loop"

\* The step decodes one struct and sends it through the table loop.
RecordStep == Len(consumed') = Len(consumed) + 1

\* ------------------------------------------------------------------ claims

\* C1: for every accumulator max_temp is the maximum temperature among the
\* records folded into it, and max_temp_date is the timestamp of the last
\* processed of the records that have that temperature.
C1_MaxTemp ==
    \A s \in Occupied :
        LET fr == FoldedRecs(s)
            top == MaxOf({ fr[j].temp : j \in 1..Len(fr) })
            last == MaxOf({ j \in 1..Len(fr) : fr[j].temp = top })
        IN /\ Len(fr) >= 1
           /\ states[s].max_temp = top
           /\ states[s].max_temp_date = fr[last].max_temp_date

\* Two records tie for the maximum with different timestamps and a colder
\* record is folded in as well.
C1_Witness ==
    \E s \in Occupied :
        LET fr == FoldedRecs(s)
        IN \E j, k \in 1..Len(fr) :
              /\ j < k
              /\ fr[j].temp = states[s].max_temp
              /\ fr[k].temp = states[s].max_temp
              /\ fr[j].max_temp_date # fr[k].max_temp_date
              /\ \E m \in 1..Len(fr) : fr[m].temp < states[s].max_temp

\* C2: for every accumulator min_temp is the minimum temperature among the
\* records folded into it, and min_temp_date is the timestamp of the last
\* processed of the records that have that temperature.
C2_MinTemp ==
    \A s \in Occupied :
        LET fr == FoldedRecs(s)
            bottom == MinOf({ fr[j].temp : j \in 1..Len(fr) })
            last == MaxOf({ j \in 1..Len(fr) : fr[j].temp = bottom })
        IN /\ Len(fr) >= 1
           /\ states[s].min_temp = bottom
           /\ states[s].min_temp_date = fr[last].min_temp_date

\* Two records tie for the minimum with different timestamps and a warmer
\* record is folded in as well.
C2_Witness ==
    \E s \in Occupied :
        LET fr == FoldedRecs(s)
        IN \E j, k \in 1..Len(fr) :
              /\ j < k
              /\ fr[j].temp = states[s].min_temp
              /\ fr[k].temp = states[s].min_temp
              /\ fr[j].min_temp_date # fr[k].min_temp_date
              /\ \E m \in 1..Len(fr) : fr[m].temp > states[s].min_temp

\* C3: the state codes in table order (and in the printed report) are the
\* state codes in the order of their first record over all files, and no
\* step moves or replaces an entry that is already in the table.
C3_DiscoveryOrder ==
    /\ [](TableCodes = DiscoveryOrder)
    /\ [](printed => CodesOf(report) = DiscoveryOrder)
    /\ [][\A s \in Occupied : states'[s] # NULL /\ Code2(states'[s]) = Code2(states[s])]_vars

\* C4: every state code seen has an accumulator and the record counts of
\* the accumulators add up to the number of records consumed.
C4_NoRecordDropped ==
    /\ \A n \in 1..Len(consumed) :
          \E s \in Occupied : Code2(states[s]) = Code2(consumed[n])
    /\ LET cnt(a) == a.num_records
           w == Walk(states, 0)
       IN SumOver(cnt, w, Len(w)) = Len(consumed)

\* C5: reading a line with fewer than 9 tokens leaves the whole table as it
\* was and analyze_file goes on to the next line.
C5_ShortLineSkipped ==
    [][(LineStep /\ index' < NumFields) => (states' = states /\ pc' = "analyze")]_vars

C7_SumsMatch ==
    \A s \in Occupied :
        LET fr == FoldedRecs(s)
            hum(r) == r.humidity
            tmp(r) == r.temp
            cld(r) == r.cloud_cover
            lgt(r) == r.lightning_strikes
            snw(r) == r.snow
        IN /\ states[s].num_records >= 1
           /\ Len(fr) >= 1
           /\ { folded[s][j] : j \in 1..Len(fr) } =
                { n \in folded[s][1]..Len(consumed) :
                     Code2(consumed[n]) = Code2(states[s]) }
           /\ states[s].num_records = Len(fr)
           /\ states[s].humidity = SumOver(hum, fr, Len(fr))
           /\ states[s].temp = SumOver(tmp, fr, Len(fr))
           /\ states[s].cloud_cover = SumOver(cld, fr, Len(fr))
           /\ states[s].lightning_strikes = SumOver(lgt, fr, Len(fr))
           /\ states[s].snow = SumOver(snw, fr, Len(fr))

\* What C8 compares of one accumulator: code, count, sums, counters, extrema.
AggOf(a) ==
    <<Code2(a), a.num_records, a.humidity, a.temp, a.cloud_cover,
      a.lightning_strikes, a.snow, a.max_temp, a.min_temp>>

Aggs(tab) == { AggOf(tab[s]) : s \in { t \in Slots : tab[t] # NULL } }

\* C8: a finished run over two files leaves, for every state code, the same
\* count, sums, counters and extrema as the run over the same two files in
\* the other order.
C8_FileOrder ==
    (pc = "exit" /\ printed /\ Len(recs) = 2) =>
        Aggs(states) = Aggs(FoldAll(EmptyTable, recs[2] \o recs[1]))

\* C9: the occupied slots are a prefix of the table, no two of them hold the
\* same state code, and no step empties an occupied slot or changes its code.
C9_TableIdentity ==
    /\ [](\A s \in Occupied : \A t \in 0..s : t \in Occupied)
    /\ [](\A s, t \in Occupied : Code2(states[s]) = Code2(states[t]) => s = t)
    /\ [][\A s \in Occupied : states'[s] # NULL /\ Code2(states'[s]) = Code2(states[s])]_vars

\* C10: a step that consumes a record with state code c changes at most one
\* slot; a changed slot either held an accumulator for c and still does, or
\* was the first NULL slot and now holds the new struct; accumulators with
\* another code are left as they were.
C10_OneSlot ==
    [][RecordStep =>
        LET st == consumed'[Len(consumed')]
            changed == { s \in Slots : states'[s] # states[s] }
        IN /\ Cardinality(changed) <= 1
           /\ \A s \in changed :
                \/ /\ states[s] # NULL
                   /\ Code2(states[s]) = Code2(st)
                   /\ states'[s] # NULL
                   /\ Code2(states'[s]) = Code2(st)
                \/ /\ states[s] = NULL
                   /\ \A t \in 0..(s - 1) : states[t] # NULL
                   /\ states'[s] = st
           /\ \A s \in Occupied :
                Code2(states[s]) # Code2(st) => states'[s] = states[s]
      ]_vars

\* An accumulator took a second record while another state code sits in the
\* table before it.
C10_Witness ==
    \E s, t \in Occupied :
        /\ t < s
        /\ Code2(states[s]) # Code2(states[t])
        /\ states[s].num_records >= 2

====
